---- MODULE Spec2Model ----
(***************************************************************************)
(* A model of the screenly-ai-backend request handlers: the jobs,          *)
(* candidates and job_questions routers over one relational store, the     *)
(* Firebase authentication dependency and the per-request database         *)
(* connection.  Every handler is one action: the request's inputs are      *)
(* drawn with \E, the SQL statements are evaluated on the tables, the      *)
(* handler's try/except chain maps the outcome to the HTTP status, and     *)
(* the tables change only when conn.commit() is reached.  Spec serves the  *)
(* requests one after the other over a database that answers every call,   *)
(* SpecFaults lets the driver raise, SpecAuth lets the identity service     *)
(* change between requests, and SpecConcurrent runs update_job, read_job    *)
(* and delete_job_question statement by statement in two worker threads.    *)
(***************************************************************************)
EXTENDS Integers, Sequences, FiniteSets, TLC

\* ------------------------------------------------------------------ bounds
\* uuid4() is called at most MaxUuid times; path ids range over 1..MaxUuid.
MaxUuid == 3
\* The clock (datetime.utcnow(), NOW()) is read at most MaxTime times.
MaxTime == 3

\* ------------------------------------------------------------ input values
\* Python's None and SQL's NULL.
None == "None"

\* Firebase uids of the registered users.
Users == {"u1", "u2"}

\* Bearer tokens: two issued to the users, one the identity service cannot
\* decode, one that decodes to a token without a uid, and None for a request
\* without an Authorization header.
Tokens == {"tok_u1", "tok_u2", "tok_invalid", "tok_nouid", None}

\* (job_id, question_id) path parameters: any uuid, issued or not.
PathIds == 1..MaxUuid

\* read_jobs / read_candidates_for_job pagination (the default is 0, 100).
Pagination == {<<0, 100>>, <<1, 100>>, <<0, 1>>}

\* LocationType and SeniorityLevel: member name |-> value.
LocationType == [ON_SITE |-> "on-site", REMOTE |-> "remote", HYBRID |-> "hybrid"]
SeniorityLevel ==
    [INTERN |-> "intern", JUNIOR |-> "junior", MID_LEVEL |-> "mid-level",
     SENIOR |-> "senior", LEAD |-> "lead", PRINCIPAL |-> "principal"]

\* The columns a job body (JobBase) carries.
JobBaseFields == {"title", "description", "location", "location_type", "seniority_level"}

\* Request bodies of POST /jobs (JobCreate); enum fields hold the member.
JobCreateInputs ==
    { [title |-> "Engineer", description |-> "Builds things", location |-> None,
       location_type |-> "REMOTE", seniority_level |-> None] }

\* Request bodies of PUT /jobs/{job_id} after model_dump(exclude_unset=True):
\* the supplied fields only; << >> is the empty body.
JobUpdateInputs ==
    { << >>,
      [title |-> "Analyst", location_type |-> "HYBRID"],
      [description |-> None, location |-> "Perth", seniority_level |-> "LEAD"] }

\* Request bodies of POST /jobs/{job_id}/candidates (CandidateCreate).
CandidateInputs ==
    { [full_name |-> "Ann Lee", phone_number |-> "0400111222", email |-> None] }

\* Request bodies of POST /jobs/{job_id}/questions (JobQuestionCreate).
QuestionInputs == { [question_text |-> "Why this role?"] }

\* The driver call of a request at which psycopg2 raises, if any.
Faults == {"none", "connect", "execute1", "execute2", "commit"}
\* A database that answers every call.
NoFaults == {"none"}

\* ------------------------------------------------------------------- state
VARIABLES
    jobs,           \* table jobs: a set of rows
    candidates,     \* table candidates
    job_questions,  \* table job_questions
    now,            \* the last timestamp the clock returned
    uuid_count,     \* how many uuids uuid4() has returned
    req,            \* the last request
    resp,           \* its response: [status, body]
    log,            \* its database activity: connections, statements, commits
    prev_delete,    \* the request served before, when it was a delete answered 204
    connections,    \* the number of open database connections
    idp,            \* the identity service: expired and revoked tokens, users, outage
    txn             \* the requests running in the worker threads, step by step

vars == <<jobs, candidates, job_questions, now, uuid_count, req, resp, log, prev_delete,
          connections, idp, txn>>

store == <<jobs, candidates, job_questions>>

\* ----------------------------------------------------------------- helpers
Request(op, token, job_id, question_id, skip, limit, body, fault) ==
    [op |-> op, token |-> token, job_id |-> job_id, question_id |-> question_id,
     skip |-> skip, limit |-> limit, body |-> body, fault |-> fault]

NoLog == [opened |-> 0, closed |-> 0, stmts |-> << >>, commits |-> 0]

\* Python's exception classes: the classes an exception is an instance of.
Bases(exc) ==
    CASE exc = "ForeignKeyViolation" -> {"ForeignKeyViolation", "psycopg2.Error", "Exception"}
      [] exc = "psycopg2.Error"      -> {"psycopg2.Error", "Exception"}
      [] exc = "HTTPException"       -> {"HTTPException", "Exception"}
      [] exc = "InvalidIdTokenError" -> {"InvalidIdTokenError", "Exception"}
      [] exc = "ExpiredIdTokenError" ->
            {"ExpiredIdTokenError", "InvalidIdTokenError", "Exception"}
      [] exc = "RevokedIdTokenError" ->
            {"RevokedIdTokenError", "InvalidIdTokenError", "Exception"}
      [] exc = "ValidationError"     -> {"ValidationError", "Exception"}
      [] OTHER                       -> {"Exception"}

\* A try block's outcome: what it raised ("none": it returned), the status of
\* the HTTPException or of the normal return, and the returned body.
Returned(status, body) == [exc |-> "none", status_code |-> status, body |-> body]
Raised(exc, status) == [exc |-> exc, status_code |-> status, body |-> << >>]

\* try ... except: the first clause whose class the exception is an instance
\* of handles it; a clause is <<class, status>>, the status 0 standing for
\* "raise" (the exception is re-raised as it is).
RECURSIVE Except(_, _)
Except(outcome, clauses) ==
    IF outcome.exc = "none" THEN [status |-> outcome.status_code, body |-> outcome.body]
    ELSE IF clauses = << >>
         THEN [status |-> IF outcome.exc = "HTTPException" THEN outcome.status_code ELSE 500,
               body |-> << >>]
    ELSE IF Head(clauses)[1] \in Bases(outcome.exc)
         THEN [status |-> IF Head(clauses)[2] = 0 THEN outcome.status_code
                          ELSE Head(clauses)[2],
               body |-> << >>]
    ELSE Except(outcome, Tail(clauses))

\* ORDER BY created_at DESC / ASC over a set of rows, as a sequence.
RECURSIVE OrderByCreatedAtDesc(_)
OrderByCreatedAtDesc(rows) ==
    IF rows = {} THEN << >>
    ELSE LET r == CHOOSE x \in rows : \A y \in rows : y.created_at <= x.created_at
         IN  <<r>> \o OrderByCreatedAtDesc(rows \ {r})

RECURSIVE OrderByCreatedAtAsc(_)
OrderByCreatedAtAsc(rows) ==
    IF rows = {} THEN << >>
    ELSE LET r == CHOOSE x \in rows : \A y \in rows : x.created_at <= y.created_at
         IN  <<r>> \o OrderByCreatedAtAsc(rows \ {r})

\* LIMIT limit OFFSET skip.
LimitOffset(rows, limit, skip) ==
    SubSeq(rows, skip + 1, IF skip + limit < Len(rows) THEN skip + limit ELSE Len(rows))

\* value.value for an Enum member, the value itself otherwise.
EnumValue(value) ==
    IF value \in DOMAIN LocationType THEN LocationType[value]
    ELSE IF value \in DOMAIN SeniorityLevel THEN SeniorityLevel[value]
    ELSE value

\* ------------------------------------------------------ app/dependencies.py
\* The uid claim of the tokens the identity service can decode.
TokenUid == [tok_u1 |-> "u1", tok_u2 |-> "u2", tok_nouid |-> None]

\* firebase_admin.auth.verify_id_token(token, check_revoked=True): the decoded
\* token, or the exception the identity service raises.
verify_id_token(token) ==
    IF idp.down THEN [exc |-> "CertificateFetchError", uid |-> None]
    ELSE IF token \notin DOMAIN TokenUid THEN [exc |-> "InvalidIdTokenError", uid |-> None]
    ELSE IF token \in idp.expired THEN [exc |-> "ExpiredIdTokenError", uid |-> None]
    ELSE IF token \in idp.revoked THEN [exc |-> "RevokedIdTokenError", uid |-> None]
    ELSE [exc |-> "none", uid |-> TokenUid[token]]

\* firebase_admin.auth.get_user(uid): the user record, or UserNotFoundError.
get_user(uid) ==
    IF uid \in idp.users THEN [exc |-> "none", uid |-> uid]
    ELSE [exc |-> "UserNotFoundError", uid |-> None]

\* get_current_user's except clauses, every one raising credentials_exception,
\* without the last.
AuthExcept_NoCatchAll ==
    << <<"InvalidIdTokenError", 401>>, <<"ExpiredIdTokenError", 401>> >>

\* get_current_user's except clauses, every one raising credentials_exception.
AuthExcept ==
    << <<"InvalidIdTokenError", 401>>, <<"ExpiredIdTokenError", 401>>, <<"Exception", 401>> >>

\* get_current_user: [status |-> 0, uid] for a verified token of a known user
\* (the request goes on to the handler), the status of the HTTPException
\* otherwise.  oauth2_scheme answers a request without a token with 401 itself.
get_current_user(token) ==
    LET decoded == verify_id_token(token)
        user_record == get_user(decoded.uid)
        outcome == IF decoded.exc # "none" THEN Raised(decoded.exc, 0)
                   ELSE IF decoded.uid = None THEN Raised("HTTPException", 401)
                   ELSE IF user_record.exc # "none" THEN Raised(user_record.exc, 0)
                   ELSE Returned(0, <<user_record.uid>>)
        handled == IF token = None THEN Except(Raised("HTTPException", 401), << >>)
                   ELSE Except(outcome, AuthExcept)
    IN  [status |-> handled.status,
         uid |-> IF handled.status = 0 THEN handled.body[1] ELSE None]

\* --------------------------------------------------------------- app/db.py
\* What a handler's "with get_db_connection() as conn:" block leaves: the
\* outcome of the block, the tables as committed, the statements executed and
\* the number of commits.
Block(outcome, J, C, Q, stmts, commits) ==
    [out |-> outcome, jobs |-> J, candidates |-> C, job_questions |-> Q,
     stmts |-> stmts, commits |-> commits]

\* A block that raised before any commit: the tables stay as they were.
Aborted(outcome, stmts) == Block(outcome, jobs, candidates, job_questions, stmts, 0)

\* A finally clause that closes nothing.
CloseCount_Leak(opened) == 0

\* The finally clause: an opened connection is closed.
CloseCount(opened) == opened

\* get_db_connection: psycopg2.connect raises (nothing opened, nothing to
\* close) or the block runs on the connection, whatever it raises is re-raised
\* and the connection is closed.  Closing without commit rolls back.
get_db_connection(fault, block) ==
    IF fault = "connect"
    THEN [opened |-> 0, closed |-> 0] @@ Aborted(Raised("psycopg2.Error", 0), << >>)
    ELSE [opened |-> 1, closed |-> CloseCount(1)] @@ block

\* The handler's response and effect, from what the with-statement left and the
\* handler's except clauses.
Handled(r, clauses) ==
    LET done == r IN [resp |-> Except(done.out, clauses)] @@ done

\* A handler that raised before it opened a connection.
Rejected(status) ==
    [resp |-> [status |-> status, body |-> << >>], opened |-> 0, closed |-> 0]
        @@ Aborted(Raised("HTTPException", status), << >>)

\* The database activity of a handled request.
LogOf(h) ==
    [opened |-> h.opened, closed |-> h.closed, stmts |-> h.stmts, commits |-> h.commits]

\* ------------------------------------------------------- app/models/job.py
\* JobRead built from a row of the jobs/candidates join: the JobRead fields
\* only (a row's updated_at is no field of JobRead), the unset ones defaulted.
JobRead(row) ==
    [id |-> row.id, title |-> row.title, description |-> row.description,
     location |-> row.location, location_type |-> row.location_type,
     seniority_level |-> row.seniority_level,
     created_by_user_id |-> row.created_by_user_id, created_at |-> row.created_at,
     candidate_count |-> row.candidate_count,
     average_score |-> None, screening_link |-> None]

\* [JobRead.model_validate(dict(row)) for row in rows]
RECURSIVE JobReadList(_)
JobReadList(rows) ==
    IF rows = << >> THEN << >> ELSE <<JobRead(Head(rows))>> \o JobReadList(Tail(rows))

\* ----------------------------------------------------- app/routers/jobs.py
\* The join without its ON condition: every candidate counts for every job.
JobWithCount_NoJoinCondition(j, C) ==
    [id |-> j.id, title |-> j.title, description |-> j.description,
     location |-> j.location, location_type |-> j.location_type,
     seniority_level |-> j.seniority_level,
     created_by_user_id |-> j.created_by_user_id, created_at |-> j.created_at,
     updated_at |-> j.updated_at,
     candidate_count |-> Cardinality(C)]

\* SELECT j.*, COUNT(c.id) AS candidate_count FROM jobs j LEFT JOIN candidates c
\* ON j.id = c.job_id ... GROUP BY j.*: one row per job of J.
JobWithCount(j, C) ==
    [id |-> j.id, title |-> j.title, description |-> j.description,
     location |-> j.location, location_type |-> j.location_type,
     seniority_level |-> j.seniority_level,
     created_by_user_id |-> j.created_by_user_id, created_at |-> j.created_at,
     updated_at |-> j.updated_at,
     candidate_count |-> Cardinality({c \in C : c.job_id = j.id})]

\* create_job's INSERT INTO jobs ... RETURNING: the new row (updated_at is not
\* inserted and stays NULL, written 0).
InsertJob(job_id, job_in, uid, created_at) ==
    [id |-> job_id, title |-> job_in.title, description |-> job_in.description,
     location |-> job_in.location,
     location_type |-> EnumValue(job_in.location_type),
     seniority_level |-> EnumValue(job_in.seniority_level),
     created_by_user_id |-> uid, created_at |-> created_at, updated_at |-> 0]

\* The JobRead create_job returns, built from the RETURNING record.
CreatedJobRead(record) ==
    [id |-> record.id, title |-> record.title, description |-> record.description,
     location |-> record.location, location_type |-> record.location_type,
     seniority_level |-> record.seniority_level,
     created_by_user_id |-> record.created_by_user_id,
     created_at |-> record.created_at,
     candidate_count |-> 0, average_score |-> None, screening_link |-> None]

\* create_job's with-block.
create_job_block(uid, job_in, fault, job_id, created_at) ==
    LET record == InsertJob(job_id, job_in, uid, created_at)
    IN  IF fault = "execute1"
        THEN Aborted(Raised("psycopg2.Error", 0), <<"INSERT jobs">>)
        ELSE IF fault = "commit"
        THEN Aborted(Raised("psycopg2.Error", 0), <<"INSERT jobs">>)
        ELSE Block(Returned(201, <<CreatedJobRead(record)>>),
                   jobs \cup {record}, candidates, job_questions,
                   <<"INSERT jobs">>, 1)

create_job_handler(uid, job_in, fault, job_id, created_at) ==
    Handled(get_db_connection(fault, create_job_block(uid, job_in, fault, job_id, created_at)),
            << <<"psycopg2.Error", 500>>, <<"Exception", 500>> >>)

\* read_jobs without its owner filter.
ReadJobsWhere_AnyOwner(j, uid) == TRUE

\* read_jobs's WHERE clause.
ReadJobsWhere(j, uid) == j.created_by_user_id = uid

\* read_jobs's query.
read_jobs_query(uid, limit, skip) ==
    LimitOffset(
        OrderByCreatedAtDesc({JobWithCount(j, candidates) : j \in {x \in jobs : ReadJobsWhere(x, uid)}}),
        limit, skip)

read_jobs_block(uid, skip, limit, fault) ==
    IF fault = "execute1"
    THEN Aborted(Raised("psycopg2.Error", 0), <<"SELECT jobs">>)
    ELSE Aborted(Returned(200, JobReadList(read_jobs_query(uid, limit, skip))),
                 <<"SELECT jobs">>)

read_jobs_handler(uid, skip, limit, fault) ==
    Handled(get_db_connection(fault, read_jobs_block(uid, skip, limit, fault)),
            << <<"psycopg2.Error", 500>>, <<"Exception", 500>> >>)

\* read_job's and update_job's fetch query: WHERE j.id = %s AND
\* j.created_by_user_id = %s.
JobByIdAndOwner(J, job_id, uid) ==
    {j \in J : j.id = job_id /\ j.created_by_user_id = uid}

\* cur.fetchone() of the job query: << >> for no row.
FetchJob(J, C, job_id, uid) ==
    LET found == JobByIdAndOwner(J, job_id, uid)
    IN  IF found = {} THEN << >> ELSE <<JobWithCount(CHOOSE j \in found : TRUE, C)>>

\* read_job's with-block with a conn.commit() after the fetch.
read_job_block_WithCommit(uid, job_id, fault) ==
    LET job_record == FetchJob(jobs, candidates, job_id, uid)
    IN  IF fault = "execute1"
        THEN Aborted(Raised("psycopg2.Error", 0), <<"SELECT jobs">>)
        ELSE IF fault = "commit"
        THEN Aborted(Raised("psycopg2.Error", 0), <<"SELECT jobs">>)
        ELSE IF job_record = << >>
        THEN Block(Raised("HTTPException", 404), jobs, candidates, job_questions,
                   <<"SELECT jobs">>, 1)
        ELSE Block(Returned(200, <<JobRead(job_record[1])>>), jobs, candidates,
                   job_questions, <<"SELECT jobs">>, 1)

read_job_block(uid, job_id, fault) ==
    LET job_record == FetchJob(jobs, candidates, job_id, uid)
    IN  IF fault = "execute1"
        THEN Aborted(Raised("psycopg2.Error", 0), <<"SELECT jobs">>)
        ELSE IF job_record = << >>
        THEN Aborted(Raised("HTTPException", 404), <<"SELECT jobs">>)
        ELSE Aborted(Returned(200, <<JobRead(job_record[1])>>), <<"SELECT jobs">>)

\* read_job's except clauses.
ReadJobExcept == << <<"psycopg2.Error", 500>>, <<"Exception", 500>> >>

read_job_handler(uid, job_id, fault) ==
    Handled(get_db_connection(fault, read_job_block(uid, job_id, fault)), ReadJobExcept)

\* update_job without its empty-body check.
NoUpdateData_NeverEmpty(update_data) == FALSE

\* update_job's "if not update_data".
NoUpdateData(update_data) == DOMAIN update_data = {}

\* update_job assigning every JobBase column, the unset ones as None
\* (model_dump without exclude_unset).
SetClauses_AllColumns(j, update_data, t) ==
    [column \in DOMAIN j |->
        IF column = "updated_at" THEN t
        ELSE IF column \in DOMAIN update_data THEN EnumValue(update_data[column])
        ELSE IF column \in JobBaseFields THEN None
        ELSE j[column]]

\* update_job's SET clause with created_at = NOW() beside updated_at = NOW().
SetClauses_CreatedAtToo(j, update_data, t) ==
    [column \in DOMAIN j |->
        IF column \in {"updated_at", "created_at"} THEN t
        ELSE IF column \in DOMAIN update_data THEN EnumValue(update_data[column])
        ELSE j[column]]

\* update_job's SET clause on one row: updated_at = NOW() and, for every key of
\* update_data, column = value (an Enum's value for an Enum).
SetClauses(j, update_data, t) ==
    [column \in DOMAIN j |->
        IF column = "updated_at" THEN t
        ELSE IF column \in DOMAIN update_data THEN EnumValue(update_data[column])
        ELSE j[column]]

\* update_job's WHERE clause without the owner.
UpdateJobWhere_IdOnly(j, job_id, uid) == j.id = job_id

\* update_job's WHERE clause.
UpdateJobWhere(j, job_id, uid) == j.id = job_id /\ j.created_by_user_id = uid

\* UPDATE jobs SET ... WHERE id = %s AND created_by_user_id = %s.
UpdateJobs(J, update_data, job_id, uid, t) ==
    {IF UpdateJobWhere(j, job_id, uid) THEN SetClauses(j, update_data, t) ELSE j : j \in J}

\* ... RETURNING id; cur.fetchone(): << >> when no row was updated.
UpdatedMarker(J, job_id, uid) ==
    LET hit == {j \in J : UpdateJobWhere(j, job_id, uid)}
    IN  IF hit = {} THEN << >> ELSE <<(CHOOSE j \in hit : TRUE).id>>

\* update_job's with-block committing right after the UPDATE, before the
\* SELECT.
update_job_block_CommitBeforeFetch(uid, job_id, update_data, fault, t) ==
    LET updated_marker == UpdatedMarker(jobs, job_id, uid)
        updated == UpdateJobs(jobs, update_data, job_id, uid, t)
        updated_job_record == FetchJob(updated, candidates, job_id, uid)
    IN  IF fault = "execute1"
        THEN Aborted(Raised("psycopg2.Error", 0), <<"UPDATE jobs">>)
        ELSE IF updated_marker = << >>
        THEN Aborted(Raised("HTTPException", 404), <<"UPDATE jobs">>)
        ELSE IF fault = "commit"
        THEN Aborted(Raised("psycopg2.Error", 0), <<"UPDATE jobs">>)
        ELSE IF fault = "execute2"
        THEN Block(Raised("psycopg2.Error", 0), updated, candidates, job_questions,
                   <<"UPDATE jobs", "SELECT jobs">>, 1)
        ELSE IF updated_job_record = << >>
        THEN Block(Raised("HTTPException", 500), updated, candidates, job_questions,
                   <<"UPDATE jobs", "SELECT jobs">>, 1)
        ELSE Block(Returned(200, <<JobRead(updated_job_record[1])>>),
                   updated, candidates, job_questions,
                   <<"UPDATE jobs", "SELECT jobs">>, 1)

\* update_job's with-block: UPDATE, the 404 check, SELECT, commit, the 500
\* check, the response.
update_job_block(uid, job_id, update_data, fault, t) ==
    LET updated_marker == UpdatedMarker(jobs, job_id, uid)
        updated == UpdateJobs(jobs, update_data, job_id, uid, t)
        updated_job_record == FetchJob(updated, candidates, job_id, uid)
    IN  IF fault = "execute1"
        THEN Aborted(Raised("psycopg2.Error", 0), <<"UPDATE jobs">>)
        ELSE IF updated_marker = << >>
        THEN Aborted(Raised("HTTPException", 404), <<"UPDATE jobs">>)
        ELSE IF fault = "execute2"
        THEN Aborted(Raised("psycopg2.Error", 0), <<"UPDATE jobs", "SELECT jobs">>)
        ELSE IF fault = "commit"
        THEN Aborted(Raised("psycopg2.Error", 0), <<"UPDATE jobs", "SELECT jobs">>)
        ELSE IF updated_job_record = << >>
        THEN Block(Raised("HTTPException", 500), updated, candidates, job_questions,
                   <<"UPDATE jobs", "SELECT jobs">>, 1)
        ELSE Block(Returned(200, <<JobRead(updated_job_record[1])>>),
                   updated, candidates, job_questions,
                   <<"UPDATE jobs", "SELECT jobs">>, 1)

\* update_job's except clauses.
UpdateJobExcept ==
    << <<"psycopg2.Error", 500>>, <<"HTTPException", 0>>, <<"Exception", 500>> >>

update_job_handler(uid, job_id, update_data, fault, t) ==
    IF NoUpdateData(update_data) THEN Rejected(400)
    ELSE Handled(get_db_connection(fault, update_job_block(uid, job_id, update_data, fault, t)),
                 UpdateJobExcept)

\* ------------------------------------------------- app/routers/candidates.py
\* A candidates table without the foreign key on job_id.
JobExists_NoForeignKey(J, job_id) == TRUE

\* The foreign key candidates.job_id -> jobs.id that psycopg2 reports as
\* ForeignKeyViolation.
JobExists(J, job_id) == \E j \in J : j.id = job_id

\* create_candidate_for_job's INSERT INTO candidates ... RETURNING: the new
\* row; the columns not inserted take their defaults.
InsertCandidate(candidate_id, candidate_data, job_id, created_at) ==
    [id |-> candidate_id, full_name |-> candidate_data.full_name,
     phone_number |-> candidate_data.phone_number, email |-> candidate_data.email,
     job_id |-> job_id, created_at |-> created_at, updated_at |-> 0,
     status |-> "pending", score |-> None]

\* CandidateRead.model_validate(dict(row)).
CandidateRead(row) ==
    [id |-> row.id, job_id |-> row.job_id, full_name |-> row.full_name,
     phone_number |-> row.phone_number, email |-> row.email,
     created_at |-> row.created_at, updated_at |-> row.updated_at,
     status |-> row.status, score |-> row.score]

RECURSIVE CandidateReadList(_)
CandidateReadList(rows) ==
    IF rows = << >> THEN << >>
    ELSE <<CandidateRead(Head(rows))>> \o CandidateReadList(Tail(rows))

\* create_candidate_for_job's with-block: no ownership check, the INSERT, commit.
create_candidate_for_job_block(uid, job_id, candidate_data, fault, candidate_id, created_at) ==
    LET record == InsertCandidate(candidate_id, candidate_data, job_id, created_at)
    IN  IF fault = "execute1"
        THEN Aborted(Raised("psycopg2.Error", 0), <<"INSERT candidates">>)
        ELSE IF ~JobExists(jobs, job_id)
        THEN Aborted(Raised("ForeignKeyViolation", 0), <<"INSERT candidates">>)
        ELSE IF fault = "commit"
        THEN Aborted(Raised("psycopg2.Error", 0), <<"INSERT candidates">>)
        ELSE Block(Returned(201, <<CandidateRead(record)>>),
                   jobs, candidates \cup {record}, job_questions,
                   <<"INSERT candidates">>, 1)

\* create_candidate_for_job without its ForeignKeyViolation clause.
CreateCandidateExcept_NoForeignKeyClause ==
    << <<"psycopg2.Error", 500>>, <<"Exception", 500>> >>

\* create_candidate_for_job's except clauses.
CreateCandidateExcept ==
    << <<"ForeignKeyViolation", 404>>, <<"psycopg2.Error", 500>>, <<"Exception", 500>> >>

create_candidate_for_job_handler(uid, job_id, candidate_data, fault, candidate_id, created_at) ==
    Handled(get_db_connection(fault,
                create_candidate_for_job_block(uid, job_id, candidate_data, fault,
                                               candidate_id, created_at)),
            CreateCandidateExcept)

\* job_check_query / verify_job_ownership's query: SELECT id FROM jobs WHERE
\* id = %s AND created_by_user_id = %s; TRUE when a row comes back.
JobOwned(J, job_id, uid) == \E j \in J : j.id = job_id /\ j.created_by_user_id = uid

\* candidate_query.
candidate_query(job_id, limit, skip) ==
    LimitOffset(OrderByCreatedAtDesc({c \in candidates : c.job_id = job_id}), limit, skip)

read_candidates_for_job_block(uid, job_id, skip, limit, fault) ==
    IF fault = "execute1"
    THEN Aborted(Raised("psycopg2.Error", 0), <<"SELECT jobs">>)
    ELSE IF ~JobOwned(jobs, job_id, uid)
    THEN Aborted(Raised("HTTPException", 404), <<"SELECT jobs">>)
    ELSE IF fault = "execute2"
    THEN Aborted(Raised("psycopg2.Error", 0), <<"SELECT jobs", "SELECT candidates">>)
    ELSE Aborted(Returned(200, CandidateReadList(candidate_query(job_id, limit, skip))),
                 <<"SELECT jobs", "SELECT candidates">>)

\* read_candidates_for_job's except clauses.
ReadCandidatesExcept == << <<"psycopg2.Error", 500>>, <<"Exception", 500>> >>

read_candidates_for_job_handler(uid, job_id, skip, limit, fault) ==
    Handled(get_db_connection(fault, read_candidates_for_job_block(uid, job_id, skip, limit, fault)),
            ReadCandidatesExcept)

\* -------------------------------------------- app/routers/job_questions.py
\* create_job_question's INSERT INTO job_questions ... RETURNING: the new row;
\* created_at takes the column default (the current time), updated_at none.
InsertQuestion(question_id, job_id, question_data, t) ==
    [id |-> question_id, job_id |-> job_id,
     question_text |-> question_data.question_text,
     created_at |-> t, updated_at |-> 0]

\* JobQuestionRead.model_validate(dict(row)).
JobQuestionRead(row) ==
    [id |-> row.id, job_id |-> row.job_id, question_text |-> row.question_text,
     created_at |-> row.created_at, updated_at |-> row.updated_at]

RECURSIVE JobQuestionReadList(_)
JobQuestionReadList(rows) ==
    IF rows = << >> THEN << >>
    ELSE <<JobQuestionRead(Head(rows))>> \o JobQuestionReadList(Tail(rows))

\* A verify_job_ownership that never raises.
verify_job_ownership_Skipped(job_id, user_id) == TRUE

\* verify_job_ownership: TRUE when it returns, FALSE when it raises the 404.
verify_job_ownership(job_id, user_id) == JobOwned(jobs, job_id, user_id)

\* read_job_questions's query.
questions_query(job_id) ==
    OrderByCreatedAtAsc({q \in job_questions : q.job_id = job_id})

read_job_questions_block(uid, job_id, fault) ==
    IF fault = "execute1"
    THEN Aborted(Raised("psycopg2.Error", 0), <<"SELECT jobs">>)
    ELSE IF ~verify_job_ownership(job_id, uid)
    THEN Aborted(Raised("HTTPException", 404), <<"SELECT jobs">>)
    ELSE IF fault = "execute2"
    THEN Aborted(Raised("psycopg2.Error", 0), <<"SELECT jobs", "SELECT job_questions">>)
    ELSE Aborted(Returned(200, JobQuestionReadList(questions_query(job_id))),
                 <<"SELECT jobs", "SELECT job_questions">>)

\* The except clauses of read_job_questions and create_job_question.
QuestionsExcept ==
    << <<"HTTPException", 0>>, <<"psycopg2.Error", 500>>, <<"Exception", 500>> >>

read_job_questions_handler(uid, job_id, fault) ==
    Handled(get_db_connection(fault, read_job_questions_block(uid, job_id, fault)),
            QuestionsExcept)

create_job_question_block(uid, job_id, question_data, fault, question_id, t) ==
    LET record == InsertQuestion(question_id, job_id, question_data, t)
    IN  IF fault = "execute1"
        THEN Aborted(Raised("psycopg2.Error", 0), <<"SELECT jobs">>)
        ELSE IF ~verify_job_ownership(job_id, uid)
        THEN Aborted(Raised("HTTPException", 404), <<"SELECT jobs">>)
        ELSE IF fault = "execute2"
        THEN Aborted(Raised("psycopg2.Error", 0), <<"SELECT jobs", "INSERT job_questions">>)
        ELSE IF fault = "commit"
        THEN Aborted(Raised("psycopg2.Error", 0), <<"SELECT jobs", "INSERT job_questions">>)
        ELSE Block(Returned(201, <<JobQuestionRead(record)>>),
                   jobs, candidates, job_questions \cup {record},
                   <<"SELECT jobs", "INSERT job_questions">>, 1)

create_job_question_handler(uid, job_id, question_data, fault, question_id, t) ==
    Handled(get_db_connection(fault,
                create_job_question_block(uid, job_id, question_data, fault, question_id, t)),
            QuestionsExcept)

\* delete_job_question's DELETE FROM job_questions q USING jobs j WHERE q.id = %s
\* AND q.job_id = %s AND q.job_id = j.id AND j.created_by_user_id = %s: the rows
\* it deletes.
DeletedQuestions(Q, J, question_id, job_id, uid) ==
    {q \in Q : /\ q.id = question_id
               /\ q.job_id = job_id
               /\ \E j \in J : q.job_id = j.id /\ j.created_by_user_id = uid}

\* ... RETURNING q.id; cur.fetchone(): << >> when no row was deleted.
DeletedRecord(Q, J, question_id, job_id, uid) ==
    LET hit == DeletedQuestions(Q, J, question_id, job_id, uid)
    IN  IF hit = {} THEN << >> ELSE <<(CHOOSE q \in hit : TRUE).id>>

\* delete_job_question without its check of the deleted record.
NoDeletedRecord_Never(deleted_record) == FALSE

\* delete_job_question's "if not deleted_record".
NoDeletedRecord(deleted_record) == deleted_record = << >>

\* delete_job_question's with-block: DELETE, commit, then the 404 check.
delete_job_question_block(uid, job_id, question_id, fault) ==
    LET deleted == DeletedQuestions(job_questions, jobs, question_id, job_id, uid)
        deleted_record == DeletedRecord(job_questions, jobs, question_id, job_id, uid)
    IN  IF fault = "execute1"
        THEN Aborted(Raised("psycopg2.Error", 0), <<"DELETE job_questions">>)
        ELSE IF fault = "commit"
        THEN Aborted(Raised("psycopg2.Error", 0), <<"DELETE job_questions">>)
        ELSE IF NoDeletedRecord(deleted_record)
        THEN Block(Raised("HTTPException", 404), jobs, candidates, job_questions,
                   <<"DELETE job_questions">>, 1)
        ELSE Block(Returned(204, << >>), jobs, candidates, job_questions \ deleted,
                   <<"DELETE job_questions">>, 1)

\* delete_job_question's except clauses.
DeleteQuestionExcept == << <<"psycopg2.Error", 500>>, <<"Exception", 500>> >>

delete_job_question_handler(uid, job_id, question_id, fault) ==
    Handled(get_db_connection(fault, delete_job_question_block(uid, job_id, question_id, fault)),
            DeleteQuestionExcept)

\* ------------------------------------------------------------ state machine
NoRequest == Request("none", None, 0, 0, 0, 0, << >>, "none")
NoResponse == [status |-> 0, body |-> << >>]

\* The identity service at start: no token expired or revoked, every user
\* known, the service reachable.
IdpInit == [expired |-> {}, revoked |-> {}, users |-> Users, down |-> FALSE]

\* The worker threads that run requests side by side.
Procs == {"w1", "w2"}

\* A worker thread with no request.
NoTxn ==
    [pc |-> "idle", step |-> 0, op |-> "none", uid |-> None, job_id |-> 0,
     question_id |-> 0, body |-> << >>, out |-> Returned(0, << >>),
     written |-> {}, deleted |-> {}, marker |-> << >>, record |-> << >>,
     stmts |-> << >>, commits |-> 0, persisted |-> FALSE,
     waited |-> FALSE, overlap |-> FALSE, status |-> 0, response |-> << >>]

Init ==
    /\ jobs = {}
    /\ candidates = {}
    /\ job_questions = {}
    /\ now = 0
    /\ uuid_count = 0
    /\ req = NoRequest
    /\ resp = NoResponse
    /\ log = NoLog
    /\ prev_delete = NoRequest
    /\ connections = 0
    /\ idp = IdpInit
    /\ txn = [p \in Procs |-> NoTxn]

\* The routes behind Depends(get_current_user).
Ops == {"create_job", "read_jobs", "read_job", "update_job",
        "create_candidate_for_job", "read_candidates_for_job",
        "read_job_questions", "create_job_question", "delete_job_question"}

\* The server is between two requests.
Idle == req = NoRequest

\* The request ran handler result h.
Serve(request, handled) ==
    /\ \E h \in {handled} :
        /\ req' = request
        /\ resp' = h.resp
        /\ log' = LogOf(h)
        /\ jobs' = h.jobs
        /\ candidates' = h.candidates
        /\ job_questions' = h.job_questions
        /\ connections' = connections + h.opened - h.closed
    /\ UNCHANGED <<prev_delete, idp, txn>>

\* A uuid4() that returns the uuid it returned last.
Uuid4_Repeats == uuid_count

\* uuid4() and the clock: each call returns a value never returned before.
Uuid4 == uuid_count + 1
Clock == now + 1

\* A request whose token get_current_user rejects: 401, the handler never runs.
Unauthorized ==
    Idle /\ \E token \in Tokens, op \in Ops :
        /\ get_current_user(token).status # 0
        /\ req' = Request(op, token, 0, 0, 0, 0, << >>, "none")
        /\ resp' = [status |-> get_current_user(token).status, body |-> << >>]
        /\ log' = NoLog
        /\ UNCHANGED <<jobs, candidates, job_questions, now, uuid_count, prev_delete,
                       connections, idp, txn>>

create_job(F) ==
    Idle /\ \E token \in Tokens, job_in \in JobCreateInputs,
       fault \in F \cap {"none", "connect", "execute1", "commit"} :
        /\ get_current_user(token).status = 0
        /\ uuid_count < MaxUuid
        /\ now < MaxTime
        /\ Serve(Request("create_job", token, 0, 0, 0, 0, job_in, fault),
                 create_job_handler(get_current_user(token).uid, job_in, fault, Uuid4, Clock))
        /\ uuid_count' = Uuid4
        /\ now' = Clock

read_jobs(F) ==
    Idle /\ \E token \in Tokens, page \in Pagination,
       fault \in F \cap {"none", "connect", "execute1"} :
        /\ get_current_user(token).status = 0
        /\ Serve(Request("read_jobs", token, 0, 0, page[1], page[2], << >>, fault),
                 read_jobs_handler(get_current_user(token).uid, page[1], page[2], fault))
        /\ UNCHANGED <<now, uuid_count>>

read_job(F) ==
    Idle /\ \E token \in Tokens, job_id \in PathIds,
       fault \in F \cap {"none", "connect", "execute1"} :
        /\ get_current_user(token).status = 0
        /\ Serve(Request("read_job", token, job_id, 0, 0, 0, << >>, fault),
                 read_job_handler(get_current_user(token).uid, job_id, fault))
        /\ UNCHANGED <<now, uuid_count>>

\* NOW() is evaluated by the UPDATE statement only.
update_job(F) ==
    Idle /\ \E token \in Tokens, job_id \in PathIds, job_update \in JobUpdateInputs,
       fault \in F :
        /\ get_current_user(token).status = 0
        /\ NoUpdateData(job_update) => fault = "none"
        /\ NoUpdateData(job_update) \/ now < MaxTime
        /\ Serve(Request("update_job", token, job_id, 0, 0, 0, job_update, fault),
                 update_job_handler(get_current_user(token).uid, job_id, job_update, fault, Clock))
        /\ now' = IF NoUpdateData(job_update) \/ fault = "connect" THEN now ELSE Clock
        /\ UNCHANGED uuid_count

create_candidate_for_job(F) ==
    Idle /\ \E token \in Tokens, job_id \in PathIds, candidate_data \in CandidateInputs,
       fault \in F \cap {"none", "connect", "execute1", "commit"} :
        /\ get_current_user(token).status = 0
        /\ uuid_count < MaxUuid
        /\ now < MaxTime
        /\ Serve(Request("create_candidate_for_job", token, job_id, 0, 0, 0, candidate_data, fault),
                 create_candidate_for_job_handler(get_current_user(token).uid, job_id,
                                                  candidate_data, fault, Uuid4, Clock))
        /\ uuid_count' = Uuid4
        /\ now' = Clock

read_candidates_for_job(F) ==
    Idle /\ \E token \in Tokens, job_id \in PathIds, page \in Pagination,
       fault \in F \cap {"none", "connect", "execute1", "execute2"} :
        /\ get_current_user(token).status = 0
        /\ Serve(Request("read_candidates_for_job", token, job_id, 0, page[1], page[2], << >>, fault),
                 read_candidates_for_job_handler(get_current_user(token).uid, job_id,
                                                 page[1], page[2], fault))
        /\ UNCHANGED <<now, uuid_count>>

read_job_questions(F) ==
    Idle /\ \E token \in Tokens, job_id \in PathIds,
       fault \in F \cap {"none", "connect", "execute1", "execute2"} :
        /\ get_current_user(token).status = 0
        /\ Serve(Request("read_job_questions", token, job_id, 0, 0, 0, << >>, fault),
                 read_job_questions_handler(get_current_user(token).uid, job_id, fault))
        /\ UNCHANGED <<now, uuid_count>>

\* The INSERT's column default reads the clock, when the INSERT is executed.
create_job_question(F) ==
    Idle /\ \E token \in Tokens, job_id \in PathIds, question_data \in QuestionInputs,
       fault \in F :
        /\ get_current_user(token).status = 0
        /\ uuid_count < MaxUuid
        /\ now < MaxTime
        /\ Serve(Request("create_job_question", token, job_id, 0, 0, 0, question_data, fault),
                 create_job_question_handler(get_current_user(token).uid, job_id,
                                             question_data, fault, Uuid4, Clock))
        /\ uuid_count' = Uuid4
        /\ now' = IF "INSERT job_questions" \in {log'.stmts[i] : i \in DOMAIN log'.stmts}
                  THEN Clock ELSE now

delete_job_question(F) ==
    Idle /\ \E token \in Tokens, job_id \in PathIds, question_id \in PathIds,
       fault \in F \cap {"none", "connect", "execute1", "commit"} :
        /\ get_current_user(token).status = 0
        /\ Serve(Request("delete_job_question", token, job_id, question_id, 0, 0, << >>, fault),
                 delete_job_question_handler(get_current_user(token).uid, job_id,
                                             question_id, fault))
        /\ UNCHANGED <<now, uuid_count>>

\* The response is sent and the request is over: what the request held is gone.
Complete ==
    /\ ~Idle
    /\ prev_delete' = IF req.op = "delete_job_question" /\ resp.status = 204
                      THEN req ELSE NoRequest
    /\ req' = NoRequest
    /\ resp' = NoResponse
    /\ log' = NoLog
    /\ UNCHANGED <<jobs, candidates, job_questions, now, uuid_count, connections, idp, txn>>

\* The service over a database that answers every call.
Next ==
    \/ Unauthorized
    \/ create_job(NoFaults)
    \/ read_jobs(NoFaults)
    \/ read_job(NoFaults)
    \/ update_job(NoFaults)
    \/ create_candidate_for_job(NoFaults)
    \/ read_candidates_for_job(NoFaults)
    \/ read_job_questions(NoFaults)
    \/ create_job_question(NoFaults)
    \/ delete_job_question(NoFaults)
    \/ Complete

Spec == Init /\ [][Next]_vars

\* The service over a database whose driver may raise at any call.
NextFaults ==
    \/ Unauthorized
    \/ create_job(Faults)
    \/ read_jobs(Faults)
    \/ read_job(Faults)
    \/ update_job(Faults)
    \/ create_candidate_for_job(Faults)
    \/ read_candidates_for_job(Faults)
    \/ read_job_questions(Faults)
    \/ create_job_question(Faults)
    \/ delete_job_question(Faults)
    \/ Complete

SpecFaults == Init /\ [][NextFaults]_vars

\* ---------------------------------------------------- the identity service
\* What happens at the identity service between two requests: a token
\* expires or is revoked, a user is deleted, the service becomes unreachable
\* or reachable again.
token_expires ==
    Idle /\ \E token \in DOMAIN TokenUid \ idp.expired :
        /\ idp' = [idp EXCEPT !.expired = @ \cup {token}]
        /\ UNCHANGED <<jobs, candidates, job_questions, now, uuid_count, req, resp, log,
                       prev_delete, connections, txn>>

token_revoked ==
    Idle /\ \E token \in DOMAIN TokenUid \ idp.revoked :
        /\ idp' = [idp EXCEPT !.revoked = @ \cup {token}]
        /\ UNCHANGED <<jobs, candidates, job_questions, now, uuid_count, req, resp, log,
                       prev_delete, connections, txn>>

user_deleted ==
    Idle /\ \E uid \in idp.users :
        /\ idp' = [idp EXCEPT !.users = @ \ {uid}]
        /\ UNCHANGED <<jobs, candidates, job_questions, now, uuid_count, req, resp, log,
                       prev_delete, connections, txn>>

service_outage ==
    /\ Idle
    /\ idp' = [idp EXCEPT !.down = ~@]
    /\ UNCHANGED <<jobs, candidates, job_questions, now, uuid_count, req, resp, log,
                   prev_delete, connections, txn>>

\* Requests to the protected routes while the identity service changes.
NextAuth ==
    \/ token_expires
    \/ token_revoked
    \/ user_deleted
    \/ service_outage
    \/ Unauthorized
    \/ read_jobs(NoFaults)
    \/ Complete

SpecAuth == Init /\ [][NextAuth]_vars

\* ------------------------------------------------- requests side by side
\* update_job, delete_job_question and read_job run statement by statement in
\* the worker threads, each on its own connection.  psycopg2 opens a
\* transaction at the first statement; the store runs it READ COMMITTED (its
\* default): a statement reads the committed rows and the transaction's own
\* writes, an UPDATE or DELETE waits for the row locks of another transaction
\* and then works on the rows as that transaction left them, conn.commit()
\* makes the writes visible at once, conn.close() without commit drops them.

\* The store the worker threads start from: u1 has created a job and a
\* question under it.
SeedJob == InsertJob(1, CHOOSE job_in \in JobCreateInputs : TRUE, "u1", 1)
SeedQuestion ==
    InsertQuestion(2, SeedJob.id, CHOOSE question_data \in QuestionInputs : TRUE, 2)

InitConcurrent ==
    /\ jobs = {SeedJob}
    /\ candidates = {}
    /\ job_questions = {SeedQuestion}
    /\ now = 2
    /\ uuid_count = 2
    /\ req = NoRequest
    /\ resp = NoResponse
    /\ log = NoLog
    /\ prev_delete = NoRequest
    /\ connections = 0
    /\ idp = IdpInit
    /\ txn = [p \in Procs |-> NoTxn]

\* The PUT bodies of the side-by-side requests: those above and one that
\* assigns a field one of them assigns, to another value.
ConcurrentUpdateInputs == JobUpdateInputs \cup {[title |-> "Manager"]}

\* update_job's with-block that commits right after the UPDATE.
update_job_steps_CommitBeforeFetch == <<"UPDATE jobs", "commit", "SELECT jobs">>

\* The driver calls of update_job's with-block, in their order.
update_job_steps == <<"UPDATE jobs", "SELECT jobs", "commit">>

\* The driver calls of delete_job_question's and read_job's with-blocks.
delete_job_question_steps == <<"DELETE job_questions", "commit">>
read_job_steps == <<"SELECT jobs">>

Steps(op) ==
    CASE op = "update_job"          -> update_job_steps
      [] op = "delete_job_question" -> delete_job_question_steps
      [] op = "read_job"            -> read_job_steps

\* The except clauses of handler op.
ExceptOf(op) ==
    CASE op = "update_job"          -> UpdateJobExcept
      [] op = "delete_job_question" -> DeleteQuestionExcept
      [] op = "read_job"            -> ReadJobExcept

\* What the with-block does once its driver calls have returned: the check
\* of the fetched record and the return.
ResultOf(t) ==
    CASE t.op = "update_job" ->
            IF t.record = << >> THEN Raised("HTTPException", 500)
            ELSE Returned(200, <<JobRead(t.record[1])>>)
      [] t.op = "delete_job_question" ->
            IF NoDeletedRecord(t.marker) THEN Raised("HTTPException", 404)
            ELSE Returned(204, << >>)
      [] t.op = "read_job" ->
            IF t.record = << >> THEN Raised("HTTPException", 404)
            ELSE Returned(200, <<JobRead(t.record[1])>>)

\* Thread t is at driver call step of its with-block.
At(t, step) == t.pc = "run" /\ Steps(t.op)[t.step] = step

\* The driver call returned: on to the next one, or to the end of the block.
Advance(t) ==
    IF t.step < Len(Steps(t.op)) THEN [t EXCEPT !.step = @ + 1]
    ELSE [t EXCEPT !.pc = "close", !.out = ResultOf(t)]

\* The with-block raised: on to the finally clause.
Raise(t, outcome) == [t EXCEPT !.pc = "close", !.out = outcome]

\* The ids of the rows thread p has written and not committed: its row locks.
Locks(p) == {r.id : r \in txn[p].written \cup txn[p].deleted}

\* A statement of p on the rows ids has to wait for another transaction.
Blocked(p, ids) == \E q \in Procs \ {p} : ids \cap Locks(q) # {}

\* The jobs a statement of p reads: the committed rows and p's own writes.
VisibleJobs(p) ==
    {j \in jobs : j.id \notin {r.id : r \in txn[p].written}} \cup txn[p].written

\* Another thread is inside its transaction.
Overlaps(p) ==
    \E q \in Procs \ {p} : txn[q].pc = "run" /\ txn[q].stmts # << >> /\ txn[q].commits = 0

\* The handler is entered: the code before the try, then psycopg2.connect.
Enter(p, op, uid, job_id, question_id, body) ==
    /\ txn[p].pc = "idle"
    /\ \E connected \in BOOLEAN :
        LET t == [NoTxn EXCEPT !.op = op, !.uid = uid, !.job_id = job_id,
                               !.question_id = question_id, !.body = body]
            h == Handled(get_db_connection("connect", Aborted(t.out, << >>)), ExceptOf(op))
        IN  IF connected
            THEN /\ txn' = [txn EXCEPT ![p] = [t EXCEPT !.pc = "run", !.step = 1]]
                 /\ connections' = connections + 1
            ELSE /\ txn' = [txn EXCEPT ![p] = [t EXCEPT !.pc = "done",
                                                        !.status = h.resp.status]]
                 /\ connections' = connections + h.opened
    /\ UNCHANGED <<jobs, candidates, job_questions, now, uuid_count,
                   req, resp, log, prev_delete, idp>>

update_job_request(p) ==
    \E token \in Tokens, job_update \in ConcurrentUpdateInputs, j \in {SeedJob} :
        /\ get_current_user(token).status = 0
        /\ IF NoUpdateData(job_update)
           THEN /\ txn[p].pc = "idle"
                /\ txn' = [txn EXCEPT ![p] =
                              [NoTxn EXCEPT !.op = "update_job", !.pc = "done",
                                            !.uid = get_current_user(token).uid,
                                            !.job_id = j.id, !.body = job_update,
                                            !.status = Rejected(400).resp.status]]
                /\ UNCHANGED <<jobs, candidates, job_questions, now, uuid_count, req,
                               resp, log, prev_delete, idp, connections>>
           ELSE Enter(p, "update_job", get_current_user(token).uid, j.id, 0, job_update)

delete_job_question_request(p) ==
    \E token \in Tokens :
        /\ get_current_user(token).status = 0
        /\ Enter(p, "delete_job_question", get_current_user(token).uid, SeedJob.id,
                 SeedQuestion.id, << >>)

read_job_request(p) ==
    \E token \in Tokens, j \in {SeedJob} :
        /\ get_current_user(token).status = 0
        /\ Enter(p, "read_job", get_current_user(token).uid, j.id, 0, << >>)

\* cur.execute(update_query): NOW() is the time the transaction starts, which
\* is this statement.
cur_execute_update(p) ==
    LET t == txn[p]
        hit == {j \in jobs : UpdateJobWhere(j, t.job_id, t.uid)}
        done == [t EXCEPT !.marker = UpdatedMarker(jobs, t.job_id, t.uid),
                          !.written = UpdateJobs(hit, t.body, t.job_id, t.uid, Clock),
                          !.stmts = Append(@, "UPDATE jobs"),
                          !.overlap = @ \/ Overlaps(p)]
    IN  /\ At(t, "UPDATE jobs")
        /\ ~Blocked(p, {j.id : j \in hit})
        /\ txn' = [txn EXCEPT ![p] = IF done.marker = << >>
                                     THEN Raise(done, Raised("HTTPException", 404))
                                     ELSE Advance(done)]
        /\ now' = Clock
        /\ UNCHANGED <<jobs, candidates, job_questions, uuid_count, req, resp, log,
                       prev_delete, idp, connections>>

\* cur.execute(fetch_query) of update_job, cur.execute(query) of read_job.
cur_execute_select(p) ==
    LET t == txn[p]
        done == [t EXCEPT !.record = FetchJob(VisibleJobs(p), candidates, t.job_id, t.uid),
                          !.stmts = Append(@, "SELECT jobs"),
                          !.overlap = @ \/ Overlaps(p)]
    IN  /\ At(t, "SELECT jobs")
        /\ txn' = [txn EXCEPT ![p] = Advance(done)]
        /\ UNCHANGED <<jobs, candidates, job_questions, now, uuid_count, req, resp, log,
                       prev_delete, idp, connections>>

\* cur.execute(query) of delete_job_question.
cur_execute_delete(p) ==
    LET t == txn[p]
        hit == DeletedQuestions(job_questions, jobs, t.question_id, t.job_id, t.uid)
        done == [t EXCEPT !.marker = DeletedRecord(job_questions, jobs, t.question_id,
                                                   t.job_id, t.uid),
                          !.deleted = hit,
                          !.stmts = Append(@, "DELETE job_questions"),
                          !.overlap = @ \/ Overlaps(p)]
    IN  /\ At(t, "DELETE job_questions")
        /\ ~Blocked(p, {q.id : q \in hit})
        /\ txn' = [txn EXCEPT ![p] = Advance(done)]
        /\ UNCHANGED <<jobs, candidates, job_questions, now, uuid_count, req, resp, log,
                       prev_delete, idp, connections>>

\* An UPDATE or DELETE finds its row locked by another transaction and waits.
lock_wait(p) ==
    LET t == txn[p]
        hit == IF At(t, "UPDATE jobs")
               THEN {j.id : j \in {x \in jobs : UpdateJobWhere(x, t.job_id, t.uid)}}
               ELSE {q.id : q \in DeletedQuestions(job_questions, jobs, t.question_id,
                                                   t.job_id, t.uid)}
    IN  /\ At(t, "UPDATE jobs") \/ At(t, "DELETE job_questions")
        /\ Blocked(p, hit)
        /\ ~t.waited
        /\ txn' = [txn EXCEPT ![p] = [t EXCEPT !.waited = TRUE]]
        /\ UNCHANGED <<jobs, candidates, job_questions, now, uuid_count, req, resp, log,
                       prev_delete, idp, connections>>

\* conn.commit(): the transaction's writes become the committed rows.
conn_commit(p) ==
    LET t == txn[p]
        done == [t EXCEPT !.commits = @ + 1,
                          !.persisted = @ \/ t.written # {} \/ t.deleted # {},
                          !.written = {}, !.deleted = {}]
    IN  /\ At(t, "commit")
        /\ jobs' = {j \in jobs : j.id \notin {r.id : r \in t.written}} \cup t.written
        /\ job_questions' = job_questions \ t.deleted
        /\ txn' = [txn EXCEPT ![p] = Advance(done)]
        /\ UNCHANGED <<candidates, now, uuid_count, req, resp, log,
                       prev_delete, idp, connections>>

\* The driver raises psycopg2.Error at the call the thread is at: the
\* statement has no effect, a failed commit commits nothing.
driver_error(p) ==
    LET t == txn[p]
        failed == IF At(t, "commit") THEN t
                  ELSE [t EXCEPT !.stmts = Append(@, Steps(t.op)[t.step])]
    IN  /\ t.pc = "run"
        /\ txn' = [txn EXCEPT ![p] = Raise(failed, Raised("psycopg2.Error", 0))]
        /\ UNCHANGED <<jobs, candidates, job_questions, now, uuid_count, req, resp, log,
                       prev_delete, idp, connections>>

\* get_db_connection's finally clause, then the handler's except clauses and
\* the response: the connection is closed, what was not committed is gone.
conn_close(p) ==
    LET t == txn[p]
        handled == Except(t.out, ExceptOf(t.op))
    IN  /\ t.pc = "close"
        /\ txn' = [txn EXCEPT ![p] = [t EXCEPT !.pc = "done", !.written = {},
                                               !.deleted = {},
                                               !.status = handled.status,
                                               !.response = handled.body]]
        /\ connections' = connections - CloseCount(1)
        /\ UNCHANGED <<jobs, candidates, job_questions, now, uuid_count, req, resp, log,
                       prev_delete, idp>>

NextConcurrent ==
    \E p \in Procs :
        \/ update_job_request(p)
        \/ delete_job_question_request(p)
        \/ read_job_request(p)
        \/ cur_execute_update(p)
        \/ cur_execute_select(p)
        \/ cur_execute_delete(p)
        \/ lock_wait(p)
        \/ conn_commit(p)
        \/ driver_error(p)
        \/ conn_close(p)

SpecConcurrent == InitConcurrent /\ [][NextConcurrent]_vars

\* -------------------------------------------------------------- properties
\* The authenticated user of request r (None when its token is rejected).
CallerOf(r) == get_current_user(r.token).uid

\* The last request was op, and its handler ran.
Served(op) == req.op = op /\ resp.status # 401

\* This step serves a request op whose handler runs.
Serving(op) == Idle /\ req'.op = op /\ resp'.status # 401

\* C1: the list read_jobs returns to caller A holds only jobs whose
\* created_by_user_id is A, whatever jobs other users have created.
C1_ReadJobsOnlyOwnJobs ==
    Served("read_jobs") =>
        \A i \in DOMAIN resp.body : resp.body[i].created_by_user_id = CallerOf(req)

\* C1's case: a non-empty list is returned while another user's job is stored.
C1_Witness ==
    /\ Served("read_jobs")
    /\ resp.status = 200
    /\ resp.body # << >>
    /\ \E j \in jobs : j.created_by_user_id # CallerOf(req)

\* C2: read_job and read_candidates_for_job on a job that does not exist or is
\* owned by another user end with status 404 and return no data.
C2_MissingJobIs404 ==
    ( /\ Served("read_job") \/ Served("read_candidates_for_job")
      /\ req.fault = "none"
      /\ ~\E j \in jobs : j.id = req.job_id /\ j.created_by_user_id = CallerOf(req) )
    => (resp.status = 404 /\ resp.body = << >>)

\* The question a delete request names exists under the named job and the
\* caller owns that job.
OwnedQuestion(r) ==
    \E q \in job_questions :
        /\ q.id = r.question_id
        /\ q.job_id = r.job_id
        /\ \E j \in jobs : j.id = q.job_id /\ j.created_by_user_id = CallerOf(r)

\* C3: deleting an existing question by the owner of its job answers 204 and
\* removes the row; the same delete sent again right after answers 404 and
\* changes nothing.
C3_DeleteTwice ==
    [][ (Serving("delete_job_question") /\ req'.fault = "none") =>
          /\ OwnedQuestion(req') =>
                /\ resp'.status = 204
                /\ job_questions' = {q \in job_questions : q.id # req'.question_id}
          /\ req' = prev_delete =>
                /\ resp'.status = 404
                /\ store' = store ]_vars

\* C4: create_candidate_for_job under an existing job owned by another user
\* answers 404 and inserts no candidate row.
C4_CandidateOnlyUnderOwnJob ==
    [][ ( /\ Serving("create_candidate_for_job")
          /\ \E j \in jobs : j.id = req'.job_id /\ j.created_by_user_id # CallerOf(req') )
        => (resp'.status = 404 /\ candidates' = candidates) ]_vars

\* What user a observes: the responses to a's read requests.
View(a) ==
    [read_jobs |-> read_jobs_handler(a, 0, 100, "none").resp,
     read_job |-> [id \in PathIds |-> read_job_handler(a, id, "none").resp],
     read_candidates_for_job |->
        [id \in PathIds |-> read_candidates_for_job_handler(a, id, 0, 100, "none").resp],
     read_job_questions |->
        [id \in PathIds |-> read_job_questions_handler(a, id, "none").resp]]

\* C5: a request of one user, successful or failed, leaves the responses to
\* every other user's read requests as they were.
C5_NoCrossUserEffect ==
    [][ \A a \in Users :
          (Idle /\ req'.op # "none" /\ CallerOf(req') # a) => View(a)' = View(a) ]_vars

\* The value update_job stores for field f of body: an Enum member's value.
Supplied(body, f) ==
    IF f = "location_type" /\ body[f] \in DOMAIN LocationType THEN LocationType[body[f]]
    ELSE IF f = "seniority_level" /\ body[f] \in DOMAIN SeniorityLevel
         THEN SeniorityLevel[body[f]]
    ELSE body[f]

\* The job a request names exists and its caller owns it.
OwnJob(r) ==
    \E j \in jobs : j.id = r.job_id /\ j.created_by_user_id = CallerOf(r)

\* C6: update_job with a non-empty field set on a job of the caller sets
\* exactly the supplied fields to the supplied values and updated_at to the
\* current time; every other field of the row, every other job row and the
\* other tables keep their values.
C6_UpdateExactlySuppliedFields ==
    [][ (Serving("update_job") /\ DOMAIN req'.body # {} /\ OwnJob(req')) =>
          \E old \in jobs : \E new \in jobs' :
              /\ old.id = req'.job_id
              /\ new.id = old.id
              /\ \A f \in DOMAIN req'.body : new[f] = Supplied(req'.body, f)
              /\ new.updated_at = now'
              /\ new.updated_at > old.updated_at
              /\ \A f \in DOMAIN old \ (DOMAIN req'.body \cup {"updated_at"}) :
                    new[f] = old[f]
              /\ jobs' \ {new} = jobs \ {old}
              /\ candidates' = candidates
              /\ job_questions' = job_questions ]_vars

\* C6's case: an owner's partial update succeeded beside another job row, and
\* the row shows a supplied and an unsupplied field.
C6_Witness ==
    /\ Served("update_job")
    /\ resp.status = 200
    /\ DOMAIN req.body = {"title", "location_type"}
    /\ Cardinality(jobs) > 1
    /\ \E j \in jobs : /\ j.id = req.job_id
                       /\ j.title = "Analyst"
                       /\ j.description = "Builds things"
                       /\ j.updated_at = now

\* C7: update_job with an empty field set answers 400, executes no SQL
\* statement and leaves every table unchanged, whatever job it names.
C7_EmptyUpdateIs400 ==
    [][ (Serving("update_job") /\ DOMAIN req'.body = {}) =>
          /\ resp'.status = 400
          /\ log'.stmts = << >>
          /\ log'.opened = 0
          /\ log'.commits = 0
          /\ store' = store ]_vars

\* C7's case: an empty update of a job the caller owns was answered.
C7_Witness ==
    /\ Served("update_job")
    /\ DOMAIN req.body = {}
    /\ OwnJob(req)
    /\ resp.status = 400

\* C8: update_job with a non-empty field set on a job that does not exist or
\* is owned by another user answers 404, commits nothing and leaves every
\* row unchanged.
C8_UpdateOfForeignJobIs404 ==
    [][ (Serving("update_job") /\ DOMAIN req'.body # {} /\ ~OwnJob(req')) =>
          /\ resp'.status = 404
          /\ log'.commits = 0
          /\ store' = store ]_vars

\* C8's case: a non-empty update of another user's existing job was answered.
C8_Witness ==
    /\ Served("update_job")
    /\ DOMAIN req.body # {}
    /\ \E j \in jobs : j.id = req.job_id /\ j.created_by_user_id # CallerOf(req)
    /\ resp.status = 404

\* C9: create_candidate_for_job with a job_id of no existing job answers 404
\* and the candidates table is the same before and after.
C9_CandidateForMissingJobIs404 ==
    [][ (Serving("create_candidate_for_job") /\ ~\E j \in jobs : j.id = req'.job_id) =>
          /\ resp'.status = 404
          /\ candidates' = candidates ]_vars

\* C9's case: a candidate for a job id that names no job was refused while
\* other jobs exist.
C9_Witness ==
    /\ Served("create_candidate_for_job")
    /\ jobs # {}
    /\ ~\E j \in jobs : j.id = req.job_id
    /\ resp.status = 404

\* C10: create_job inserts exactly one job row, with an id no stored job has,
\* owned by the caller, and returns it with candidate_count 0; no existing row
\* of any table is modified.
C10_CreateJobInsertsOneOwnedRow ==
    [][ Serving("create_job") =>
          \E new \in jobs' :
              /\ \A j \in jobs : j.id # new.id
              /\ jobs' = jobs \cup {new}
              /\ Cardinality(jobs') = Cardinality(jobs) + 1
              /\ new.created_by_user_id = CallerOf(req')
              /\ new.title = req'.body.title
              /\ resp'.status = 201
              /\ Len(resp'.body) = 1
              /\ resp'.body[1].id = new.id
              /\ resp'.body[1].created_by_user_id = CallerOf(req')
              /\ resp'.body[1].candidate_count = 0
              /\ candidates' = candidates
              /\ job_questions' = job_questions ]_vars

\* C10's case: a job was created while other jobs are stored.
C10_Witness ==
    /\ Served("create_job")
    /\ resp.status = 201
    /\ Cardinality(jobs) > 1

\* C11: in every reachable store every candidate row and every job_questions
\* row names the id of a stored job, and every job row has a non-empty owner.
C11_RowsReferenceJobs ==
    /\ \A c \in candidates : \E j \in jobs : j.id = c.job_id
    /\ \A q \in job_questions : \E j \in jobs : j.id = q.job_id
    /\ \A j \in jobs : j.created_by_user_id \in Users /\ j.created_by_user_id # None

\* C11's case: a candidate and a question are stored under a job, the last of
\* them just inserted.
C11_Witness ==
    /\ candidates # {}
    /\ job_questions # {}
    /\ Served("create_candidate_for_job") \/ Served("create_job_question")
    /\ resp.status = 201

\* This step is thread p's conn.commit().
Committing(p) == txn'[p].commits # txn[p].commits

\* This step ends thread p's request op.
Finishing(p, op) == txn[p].pc # "done" /\ txn'[p].pc = "done" /\ txn'[p].op = op

\* C12: update_job commits once, after its UPDATE and its SELECT have both
\* succeeded, and the commit changes the visible job row by the whole field
\* set at once; the visible rows change at no other step, a read_job beside
\* it reads a committed row and never a row written and not committed, and an
\* update_job that does not answer 200 (no row matched, the SELECT or the
\* commit failed) has persisted nothing.
C12_UpdateIsOneTransaction ==
    [][ \A p \in Procs :
          /\ (Committing(p) /\ txn[p].op = "update_job") =>
                /\ txn[p].commits = 0
                /\ txn[p].stmts = <<"UPDATE jobs", "SELECT jobs">>
                /\ txn[p].marker # << >>
                /\ txn[p].record # << >>
                /\ \E old \in jobs : \E new \in jobs' :
                      /\ old.id = txn[p].job_id
                      /\ new.id = old.id
                      /\ \A f \in DOMAIN txn[p].body : new[f] = Supplied(txn[p].body, f)
                      /\ \A f \in DOMAIN old \ (DOMAIN txn[p].body \cup {"updated_at"}) :
                            new[f] = old[f]
                      /\ jobs' \ {new} = jobs \ {old}
          /\ jobs' # jobs => \E q \in Procs : Committing(q) /\ txn[q].op = "update_job"
          /\ (At(txn[p], "SELECT jobs") /\ txn[p].op = "read_job" /\ txn'[p].record # << >>) =>
                /\ txn'[p].record[1] \in {JobWithCount(j, candidates) : j \in jobs}
                /\ \A q \in Procs \ {p} :
                      txn'[p].record[1] \notin {JobWithCount(w, candidates) : w \in txn[q].written}
          /\ (Finishing(p, "update_job") /\ txn'[p].status # 200) => ~txn'[p].persisted ]_vars

\* C12's case: an update_job whose UPDATE matched and whose SELECT failed has
\* answered 500 and left the job as it was, and a read_job that ran while
\* that transaction was open has returned the job unchanged.
C12_Witness ==
    \E p \in Procs : \E q \in Procs \ {p} :
        /\ txn[p].op = "update_job"
        /\ txn[p].pc = "done"
        /\ txn[p].status = 500
        /\ txn[p].marker # << >>
        /\ txn[p].stmts = <<"UPDATE jobs", "SELECT jobs">>
        /\ txn[q].op = "read_job"
        /\ txn[q].pc = "done"
        /\ txn[q].overlap
        /\ txn[q].status = 200
        /\ txn[q].response[1].title = SeedJob.title
        /\ jobs = {SeedJob}

\* The store the worker threads start from is one the request sequences reach.
SeedStoreReached ==
    /\ Idle
    /\ jobs = {SeedJob}
    /\ candidates = {}
    /\ job_questions = {SeedQuestion}
    /\ now = 2
    /\ uuid_count = 2

\* C13: a request opens at most one database connection and has closed every
\* connection it opened when it is answered, whatever the outcome; between
\* requests no connection is open.
C13_ConnectionClosedOnce ==
    /\ log.opened \in {0, 1}
    /\ log.closed = log.opened
    /\ connections = 0
    /\ Idle => log = NoLog

\* C13's case: the driver raised inside the with-block, after the UPDATE
\* matched a row, and the request was answered 500 with its connection closed.
C13_Witness ==
    /\ Served("update_job")
    /\ req.fault = "execute2"
    /\ OwnJob(req)
    /\ resp.status = 500
    /\ log.opened = 1
    /\ log.closed = 1

\* The identity service, as it is now, verifies the token and knows its user.
Verified(token) ==
    /\ ~idp.down
    /\ token \in {"tok_u1", "tok_u2"}
    /\ token \notin idp.expired \cup idp.revoked
    /\ TokenUid[token] \in idp.users

\* C14: get_current_user either returns the user of a token the identity
\* service verifies now, with a non-empty uid, or fails with 401: a missing,
\* undecodable, expired or revoked token, a token without uid, an unknown user
\* and an unreachable service all give 401 and nothing else, the handler does
\* not run, and the outcome depends on the identity service at this request
\* only, not on what earlier requests with the token were answered.
C14_VerifiedUserOr401 ==
    [][ (Idle /\ req'.op # "none") =>
          /\ get_current_user(req'.token).status \in {0, 401}
          /\ Verified(req'.token) =>
                /\ get_current_user(req'.token).status = 0
                /\ CallerOf(req') = TokenUid[req'.token]
                /\ CallerOf(req') \in Users
                /\ resp'.status = 200
          /\ ~Verified(req'.token) =>
                /\ resp'.status = 401
                /\ resp'.body = << >>
                /\ log' = NoLog
                /\ store' = store
          /\ idp' = idp ]_vars

\* C14's case: a token that verifies in itself is answered 401 because it
\* has been revoked, while the service is reachable and the user known.
C14_Witness ==
    /\ req.token = "tok_u1"
    /\ resp.status = 401
    /\ "tok_u1" \in idp.revoked
    /\ "tok_u1" \notin idp.expired
    /\ ~idp.down
    /\ "u1" \in idp.users

\* C15: read_job_questions and create_job_question execute the ownership
\* check first; on a job that does not exist or is not the caller's they
\* answer 404 having executed nothing else, and no question row is inserted;
\* so a question row is only ever inserted under a job of the caller.
C15_OwnershipCheckedFirst ==
    [][ (Serving("read_job_questions") \/ Serving("create_job_question")) =>
          /\ Head(log'.stmts) = "SELECT jobs"
          /\ ~OwnJob(req') =>
                /\ resp'.status = 404
                /\ log'.stmts = <<"SELECT jobs">>
                /\ log'.commits = 0
                /\ store' = store
          /\ job_questions' # job_questions =>
                /\ OwnJob(req')
                /\ \A q \in job_questions' \ job_questions : q.job_id = req'.job_id
                /\ job_questions \subseteq job_questions' ]_vars

\* C15's case: a question for another user's existing job was refused before
\* its INSERT.
C15_Witness ==
    /\ Served("create_job_question")
    /\ \E j \in jobs : j.id = req.job_id /\ j.created_by_user_id # CallerOf(req)
    /\ resp.status = 404
    /\ log.stmts = <<"SELECT jobs">>
    /\ job_questions # {}

\* C16: delete_job_question removes at most one question row, and only the
\* row with the path question_id under the path job_id whose job the caller
\* owns; in every other case it removes nothing and answers 404.
C16_DeleteOnlyOwnedQuestion ==
    [][ (Serving("delete_job_question") /\ req'.fault = "none") =>
          /\ job_questions' \subseteq job_questions
          /\ Cardinality(job_questions \ job_questions') <= 1
          /\ \A q \in job_questions \ job_questions' :
                /\ q.id = req'.question_id
                /\ q.job_id = req'.job_id
                /\ \E j \in jobs : j.id = q.job_id /\ j.created_by_user_id = CallerOf(req')
          /\ ~OwnedQuestion(req') =>
                /\ job_questions' = job_questions
                /\ resp'.status = 404
          /\ jobs' = jobs
          /\ candidates' = candidates ]_vars

\* What C16 says about the rows, without the status of the refusal.
DeleteRemovesOnlyOwnedQuestion ==
    [][ (Serving("delete_job_question") /\ req'.fault = "none") =>
          /\ job_questions' \subseteq job_questions
          /\ Cardinality(job_questions \ job_questions') <= 1
          /\ \A q \in job_questions \ job_questions' :
                /\ q.id = req'.question_id
                /\ q.job_id = req'.job_id
                /\ \E j \in jobs : j.id = q.job_id /\ j.created_by_user_id = CallerOf(req')
          /\ ~OwnedQuestion(req') =>
                /\ job_questions' = job_questions
                /\ resp'.status \notin {200, 201, 204}
          /\ jobs' = jobs
          /\ candidates' = candidates ]_vars

\* The columns of a job row a JobRead carries, and those of a candidate row.
JobReadColumns ==
    {"id", "title", "description", "location", "location_type", "seniority_level",
     "created_by_user_id", "created_at"}
CandidateReadColumns ==
    {"id", "job_id", "full_name", "phone_number", "email", "created_at", "updated_at",
     "status", "score"}

\* item is stored job j as a JobRead, with the number of j's candidates.
ShowsJob(item, j) ==
    /\ \A f \in JobReadColumns : item[f] = j[f]
    /\ item.candidate_count = Cardinality({c \in candidates : c.job_id = j.id})

\* The length of the page (skip, limit) of n rows.
PageLen(n, skip, limit) ==
    IF n <= skip THEN 0 ELSE IF n - skip < limit THEN n - skip ELSE limit

Answered(op) == {p \in Procs : txn[p].op = op /\ txn[p].pc = "done"}

\* C19: of the delete_job_question requests for one question that run side
\* by side, at most one is answered 204 and at most one removes the row: a
\* request is answered 204 exactly when it removed the row, and the others
\* are answered with an error.
C19_ConcurrentDeleteOnce ==
    /\ Cardinality({p \in Answered("delete_job_question") : txn[p].status = 204}) <= 1
    /\ Cardinality({p \in Procs : txn[p].op = "delete_job_question" /\ txn[p].persisted}) <= 1
    /\ \A p \in Answered("delete_job_question") :
          /\ txn[p].status = 204 <=> txn[p].persisted
          /\ txn[p].status = 204 => SeedQuestion \notin job_questions
          /\ txn[p].status # 204 => txn[p].status \in {404, 500}

\* C19's case: two deletes of the question by the owner of its job were in
\* their transactions together, one waited for the other's row lock, one was
\* answered 204 and the other was not.
C19_Witness ==
    \E p \in Procs : \E q \in Procs \ {p} :
        /\ {p, q} \subseteq Answered("delete_job_question")
        /\ txn[p].uid = SeedJob.created_by_user_id
        /\ txn[q].uid = SeedJob.created_by_user_id
        /\ txn[p].status = 204
        /\ txn[q].waited
        /\ txn[q].commits = 1
        /\ txn[q].status # 204

\* C20: when two update_job requests of the owner on one job have both been
\* answered 200, the job row holds, for a field only one of them supplied,
\* that request's value, and for a field both supplied, the value of one of
\* them; updated_at is the time of the later UPDATE.
C20_NoLostUpdate ==
    \A p \in Procs : \A q \in Procs \ {p} :
        ( /\ {p, q} \subseteq Answered("update_job")
          /\ txn[p].status = 200
          /\ txn[q].status = 200
          /\ txn[p].job_id = txn[q].job_id ) =>
        \E j \in jobs :
            /\ j.id = txn[p].job_id
            /\ \A f \in DOMAIN txn[p].body \ DOMAIN txn[q].body :
                  j[f] = Supplied(txn[p].body, f)
            /\ \A f \in DOMAIN txn[p].body \cap DOMAIN txn[q].body :
                  j[f] \in {Supplied(txn[p].body, f), Supplied(txn[q].body, f)}
            /\ \A f \in JobBaseFields \ (DOMAIN txn[p].body \cup DOMAIN txn[q].body) :
                  j[f] = SeedJob[f]
            /\ j.updated_at = now

\* C20's case: two updates with disjoint field sets were in their
\* transactions together, one waited for the other's row lock, and both were
\* answered 200.
C20_Witness ==
    \E p \in Procs : \E q \in Procs \ {p} :
        /\ {p, q} \subseteq Answered("update_job")
        /\ txn[p].status = 200
        /\ txn[q].status = 200
        /\ DOMAIN txn[p].body \cap DOMAIN txn[q].body = {}
        /\ txn[q].waited
        /\ \E j \in jobs : j.title = "Analyst" /\ j.location = "Perth"

\* The columns of a job row that are fixed when the row is inserted.
JobFixedColumns == {"id", "created_by_user_id", "created_at"}

\* C21: a stored job row stays stored, as the one row with its id, and keeps
\* its id, its created_by_user_id and its created_at, whatever request of
\* whatever user is served; a row changes only in title, description,
\* location, location_type, seniority_level and updated_at, and only when an
\* update_job writes it.
C21_JobIdentityIsFixed ==
    [][ \A j \in jobs :
          \E k \in jobs' :
              /\ k.id = j.id
              /\ \A other \in jobs' : other.id = j.id => other = k
              /\ \A f \in JobFixedColumns : k[f] = j[f]
              /\ \A f \in DOMAIN j : k[f] # j[f] => f \in JobBaseFields \cup {"updated_at"}
              /\ k # j => \/ Serving("update_job") /\ req'.job_id = j.id
                          \/ \E p \in Procs : Committing(p) /\ txn[p].op = "update_job" ]_vars

\* C21's case: a job has been updated by its owner, another user's update of
\* it has been answered 404, and the job shows the owner's new title under
\* its first id, owner and created_at.
C21_Witness ==
    /\ Served("update_job")
    /\ resp.status = 404
    /\ DOMAIN req.body # {}
    /\ \E j \in jobs :
          /\ j.id = req.job_id
          /\ j.created_by_user_id # CallerOf(req)
          /\ j.title = "Analyst"
          /\ j.updated_at > j.created_at
          /\ j.id = 1
          /\ j.created_at = 1

\* The read operations.
ReadOps == {"read_jobs", "read_job", "read_candidates_for_job", "read_job_questions"}

\* The statements the read operations execute.
ReadStatements == {"SELECT jobs", "SELECT candidates", "SELECT job_questions"}

\* C22: a read_jobs, read_job, read_candidates_for_job or read_job_questions
\* request leaves every job, candidate and question row as it was and never
\* commits, whoever the caller is and whether it is answered 200, 401, 404 or
\* 500 (the driver raising at connect or at either statement): it executes
\* SELECT statements only and closes the connection it opened; a read_job
\* running beside other requests never commits either.
C22_ReadsChangeNothing ==
    [][ /\ (Idle /\ req'.op \in ReadOps) =>
              /\ store' = store
              /\ log'.commits = 0
              /\ \A i \in DOMAIN log'.stmts : log'.stmts[i] \in ReadStatements
              /\ log'.closed = log'.opened
              /\ uuid_count' = uuid_count
        /\ \A p \in Procs :
              txn'[p].op = "read_job" =>
                  /\ txn'[p].commits = 0
                  /\ ~txn'[p].persisted
                  /\ txn'[p].written = {}
                  /\ ~Committing(p) ]_vars

\* C22's case: with a job, a candidate and a question stored,
\* read_candidates_for_job passed its ownership check, the driver raised at
\* the candidate query, and the request was answered 500.
C22_Witness ==
    /\ Served("read_candidates_for_job")
    /\ req.fault = "execute2"
    /\ resp.status = 500
    /\ log.stmts = <<"SELECT jobs", "SELECT candidates">>
    /\ log.commits = 0
    /\ jobs # {}
    /\ candidates # {}
    /\ job_questions # {}

====
